---- MODULE Spec2Model ----
(***************************************************************************)
(* A model of syft/generic/object.py: the AbstractObject entity (its       *)
(* construction, describe, tag, get, mid_get, textual summary), the        *)
(* lifecycle initializer (initialize_object / _apply_args) and the         *)
(* command dispatcher (handle_func_command / rgetattr).                    *)
(*                                                                         *)
(* Python references are modelled by a heap: objs is the sequence of live  *)
(* AbstractObject instances (a reference is an index), sets is the         *)
(* sequence of live tag-set objects (a value's tags field is an index, so  *)
(* two values can share one set object, as `tags or set()` allows).        *)
(***************************************************************************)
EXTENDS Integers, Sequences, FiniteSets, TLC

\* ---------------------------------------------------------------- bounds
MaxObjs == 4        \* live AbstractObject instances
MaxSets == 4        \* live tag-set objects
MaxPops == 3        \* ids drawn from sy.ID_PROVIDER
MaxTagArgs == 2     \* length of the *tags argument of tag()
MaxChain == 3       \* layers of a chain whose summary is taken
MaxDepth == 2       \* wrapper layers of a dispatched chain
MaxTagged == 1      \* values the caller constructs before tag
MaxMade == 2        \* values the caller constructs before get
MaxNative == 1      \* calls of a native construction routine
MaxLife == 1        \* values the caller constructs in a whole life
MaxInit == 1        \* values the caller constructs and initializes

\* ------------------------------------------------------- python values
None == 0           \* None, as a reference (child, tags)
NoId == -1          \* None, as the id argument
PtrLeaf == -1       \* a raw leaf value whose get() retrieves DataLeaf
DataLeaf == -2      \* a raw leaf value whose get() is itself
NoOwner == "None"   \* None, as an owner
NoText == "None"    \* None, as a description

Leaves == {PtrLeaf, DataLeaf}
Workers == {"w1", "w2"}
Tags == {"private", "x"}
Texts == {"d"}
FirstId == 1

VARIABLES
    objs,               \* heap of AbstractObject instances
    sets,               \* heap of tag-set objects
    nextId,             \* the state of sy.ID_PROVIDER
    local_worker,       \* sy.local_worker, the process-wide default registry
    _objects,           \* owner._objects, per worker: id -> reference
    _tag_to_object_ids, \* owner._tag_to_object_ids, per worker: tag -> ids
    native,             \* the calls of a value's native construction routine
    last,               \* the call that was made last, and how it ended
    attrs,              \* per wrapper class: the attribute paths it defines
    stack,              \* the handle_func_command calls in progress
    trace,              \* what the dispatch did so far, in order
    outcome             \* what the outermost dispatch gave its caller

heapvars == <<objs, sets, nextId, local_worker, _objects, _tag_to_object_ids, native,
              last>>
dispvars == <<attrs, stack, trace, outcome>>
vars == <<objs, sets, nextId, local_worker, _objects, _tag_to_object_ids, native,
          last, attrs, stack, trace, outcome>>

\* The mutable store threaded through the methods.
Store == [objs |-> objs, sets |-> sets, nextId |-> nextId,
          _objects |-> _objects, _tag_to_object_ids |-> _tag_to_object_ids,
          native |-> native]

Refs(st) == 1..Len(st.objs)

\* ------------------------------------------------ external collaborators
\* sy.ID_PROVIDER.pop(): the id returned is st.nextId.
pop(st) == [st EXCEPT !.nextId = @ + 1]

\* owner.register_obj(obj): stores the value keyed by its id.
register_obj(st, w, ref) ==
    [st EXCEPT !._objects[w] =
        [i \in (DOMAIN @) \cup {st.objs[ref].id} |->
            IF i = st.objs[ref].id THEN ref ELSE @[i]]]

\* get() of a raw leaf value.
LeafGet(l) == IF l = PtrLeaf THEN DataLeaf ELSE l

\* The textual summary of a raw leaf value: its type name.
LeafStr(l) == IF l = PtrLeaf THEN <<"Pointer">> ELSE <<"Tensor">>

\* AbstractTensor.on(tensor): attaches tensor as the child, returns self.
on(st, self, c) == [st EXCEPT !.objs[self].child = c]

\* obj.native___init__(*init_args, **init_kwargs): the value's own native
\* construction routine.  The call is logged with its arguments and with
\* the id and owner obj carried when it ran.
native___init__(st, obj, init_args) ==
    [st EXCEPT !.native = Append(@, [obj |-> obj, args |-> init_args,
                                     id |-> st.objs[obj].id,
                                     owner |-> st.objs[obj].owner])]

\* ------------------------------------------------------- AbstractObject
\* __init__: `owner or sy.local_worker`, `id or sy.ID_PROVIDER.pop()`,
\* `tags or set()` (None and an empty set are both falsy), description, child.
\* The new instance is the last element of objs.
init_owner(owner) == IF owner = NoOwner THEN local_worker ELSE owner

init_id_fresh(id) == id = NoId \/ id = 0

\* Variant: the constructor registers the new instance with its owner.
init_registering(st, cls, id, owner, tags, description, child) ==
    LET fresh == init_id_fresh(id)
        s1 == IF fresh THEN pop(st) ELSE st
        theId == IF fresh THEN st.nextId ELSE id
        keep == tags # None /\ st.sets[tags] # {}
        s2 == IF keep THEN s1 ELSE [s1 EXCEPT !.sets = Append(@, {})]
        theTags == IF keep THEN tags ELSE Len(s2.sets)
        s3 == [s2 EXCEPT !.objs = Append(@,
                [cls |-> cls, id |-> theId, owner |-> init_owner(owner),
                 tags |-> theTags, description |-> description, child |-> child,
                 is_wrapper |-> FALSE])]
    IN  IF init_owner(owner) # NoOwner
        THEN register_obj(s3, init_owner(owner), Len(s3.objs)) ELSE s3

__init__(st, cls, id, owner, tags, description, child) ==
    LET fresh == init_id_fresh(id)
        s1 == IF fresh THEN pop(st) ELSE st
        theId == IF fresh THEN st.nextId ELSE id
        keep == tags # None /\ st.sets[tags] # {}
        s2 == IF keep THEN s1 ELSE [s1 EXCEPT !.sets = Append(@, {})]
        theTags == IF keep THEN tags ELSE Len(s2.sets)
    IN  [s2 EXCEPT !.objs = Append(@,
            [cls |-> cls, id |-> theId, owner |-> init_owner(owner),
             tags |-> theTags, description |-> description, child |-> child,
             is_wrapper |-> FALSE])]

\* describe
describe(st, self, description) == [st EXCEPT !.objs[self].description = description]

\* Variants of the loop body: without the registration of an unregistered
\* value, and with the index update moved under the registration test.
tag_step_no_register(r, self, tag) ==
    LET st == r.st
        v == st.objs[self]
        s1 == [st EXCEPT !.sets[v.tags] = @ \cup {tag}]
    IN  IF r.raised THEN r
        ELSE IF v.owner # NoOwner
        THEN [st |-> [s1 EXCEPT !._tag_to_object_ids[v.owner][tag] = @ \cup {v.id}],
              raised |-> FALSE]
        ELSE [st |-> s1, raised |-> TRUE]

tag_step_index_on_register(r, self, tag) ==
    LET st == r.st
        v == st.objs[self]
        s1 == [st EXCEPT !.sets[v.tags] = @ \cup {tag}]
    IN  IF r.raised THEN r
        ELSE IF v.owner # NoOwner
        THEN [st |-> IF v.id \notin DOMAIN s1._objects[v.owner]
                     THEN [register_obj(s1, v.owner, self)
                              EXCEPT !._tag_to_object_ids[v.owner][tag] = @ \cup {v.id}]
                     ELSE s1,
              raised |-> FALSE]
        ELSE [st |-> s1, raised |-> TRUE]

\* tag: one iteration of `for tag in tags`, on the record
\* [st, raised]; after a raise the remaining iterations do not run.
tag_step(r, self, tag) ==
    LET st == r.st
        v == st.objs[self]
        s1 == [st EXCEPT !.sets[v.tags] = @ \cup {tag}]
    IN  IF r.raised THEN r
        ELSE IF v.owner # NoOwner
        THEN LET s2 == IF v.id \notin DOMAIN s1._objects[v.owner]
                       THEN register_obj(s1, v.owner, self) ELSE s1
             IN  [st |-> [s2 EXCEPT !._tag_to_object_ids[v.owner][tag] = @ \cup {v.id}],
                  raised |-> FALSE]
        ELSE [st |-> s1, raised |-> TRUE]

RECURSIVE tag_loop(_, _, _)
tag_loop(r, self, tags) ==
    IF tags = <<>> THEN r
    ELSE tag_loop(tag_step(r, self, Head(tags)), self, Tail(tags))

\* tag(*tags): `if self.tags is None: self.tags = set()`, then the loop.
tag(st, self, tags) ==
    LET s0 == IF st.objs[self].tags = None
              THEN [st EXCEPT !.sets = Append(@, {}), !.objs[self].tags = Len(st.sets) + 1]
              ELSE st
    IN  tag_loop([st |-> s0, raised |-> FALSE], self, tags)

\* get: a new instance of the same class from owner, tags, description and
\* id of self, then .on(self.child.get()).  The result is
\* [st, ok, ret]; ok is FALSE when self.child has no get() (child is None).
RECURSIVE get(_, _)
get(st, self) ==
    LET v == st.objs[self]
        s1 == __init__(st, v.cls, v.id, v.owner, v.tags, v.description, None)
        new == Len(s1.objs)
        c == IF v.child = None THEN [st |-> s1, ok |-> FALSE, ret |-> None]
             ELSE IF v.child \in Leaves
             THEN [st |-> s1, ok |-> TRUE, ret |-> LeafGet(v.child)]
             ELSE get(s1, v.child)
    IN  IF c.ok THEN [st |-> on(c.st, new, c.ret), ok |-> TRUE, ret |-> new]
        ELSE [st |-> c.st, ok |-> FALSE, ret |-> None]

\* mid_get: child_id = self.id; tensor = self.get(); tensor.id = child_id;
\* self.owner.register_obj(tensor); it returns None.  ok is FALSE when get()
\* raised or when self.owner is None (no register_obj to call); new is the
\* retrieved value.
\* Variant: the retrieved value keeps the id its constructor gave it.
mid_get_keep_id(st, tensor, child_id) == st

mid_get_force_id(st, tensor, child_id) == [st EXCEPT !.objs[tensor].id = child_id]

\* Variant: the assignment is reversed, self takes the retrieved value's id.
mid_get_assign_reversed(st, self) ==
    LET g == get(st, self)
        s1 == [g.st EXCEPT !.objs[self].id = g.st.objs[g.ret].id]
        owner == st.objs[self].owner
    IN  IF ~g.ok THEN [st |-> g.st, ok |-> FALSE, ret |-> None, new |-> None]
        ELSE IF owner = NoOwner THEN [st |-> s1, ok |-> FALSE, ret |-> None, new |-> None]
        ELSE [st |-> register_obj(s1, owner, g.ret), ok |-> TRUE, ret |-> None,
              new |-> g.ret]

mid_get(st, self) ==
    LET child_id == st.objs[self].id
        g == get(st, self)
        s1 == mid_get_force_id(g.st, g.ret, child_id)
        owner == st.objs[self].owner
    IN  IF ~g.ok THEN [st |-> g.st, ok |-> FALSE, ret |-> None, new |-> None]
        ELSE IF owner = NoOwner THEN [st |-> s1, ok |-> FALSE, ret |-> None, new |-> None]
        ELSE [st |-> register_obj(s1, owner, g.ret), ok |-> TRUE, ret |-> None,
              new |-> g.ret]

\* __str__ / __repr__: the summary as the sequence of its pieces.
\* Every instance built by __init__ has the attribute child, so
\* hasattr(self, "child") holds and the child's summary is appended; the
\* summary of None is "None".
RECURSIVE __str__(_, _)
__str__(st, self) ==
    LET v == st.objs[self]
    IN  <<v.cls, ">">> \o
        (IF v.child = None THEN <<"None">>
         ELSE IF v.child \in Leaves THEN LeafStr(v.child)
         ELSE __str__(st, v.child))

RECURSIVE __repr__(_, _)
__repr__(st, self) ==
    LET v == st.objs[self]
    IN  <<v.cls, ">">> \o
        (IF v.child = None THEN <<"None">>
         ELSE IF v.child \in Leaves THEN LeafStr(v.child)
         ELSE __repr__(st, v.child))

\* _apply_args: owner defaults to hook.local_worker and id to a fresh one
\* only when they are None.
_apply_args(st, hook, obj_to_register, owner, id) ==
    LET theOwner == IF owner = NoOwner THEN hook ELSE owner
        s1 == IF id = NoId THEN pop(st) ELSE st
        theId == IF id = NoId THEN st.nextId ELSE id
    IN  [s1 EXCEPT !.objs[obj_to_register].id = theId,
                   !.objs[obj_to_register].owner = theOwner]

\* initialize_object: is_wrapper = False, the native constructor when
\* reinitialize, then _apply_args.  hook stands for hook.local_worker.
\* Variant: the native constructor runs after id and owner were assigned.
initialize_object_apply_first(st, hook, obj, owner, reinitialize, id, init_args) ==
    LET s1 == _apply_args([st EXCEPT !.objs[obj].is_wrapper = FALSE], hook, obj, owner, id)
    IN  IF reinitialize THEN native___init__(s1, obj, init_args) ELSE s1

initialize_object(st, hook, obj, owner, reinitialize, id, init_args) ==
    LET s1 == [st EXCEPT !.objs[obj].is_wrapper = FALSE]
        s2 == IF reinitialize THEN native___init__(s1, obj, init_args) ELSE s1
    IN  _apply_args(s2, hook, obj, owner, id)

\* ------------------------------------------------------------- actions
Fits(st) ==
    /\ Len(st.objs) <= MaxObjs
    /\ Len(st.sets) <= MaxSets
    /\ st.nextId <= FirstId + MaxPops
    /\ Len(st.native) <= MaxNative

Commit(st) ==
    /\ objs' = st.objs
    /\ sets' = st.sets
    /\ nextId' = st.nextId
    /\ _objects' = st._objects
    /\ _tag_to_object_ids' = st._tag_to_object_ids
    /\ native' = st.native
    /\ UNCHANGED <<local_worker, attrs, stack, trace, outcome>>

\* The record of a call: its name, self, the tags passed, how it ended, what
\* it returned (ret), the instance it constructed (new), what the owner's
\* registry held under self's id when the call began (before), the tags
\* self carried when the call began (held), and the summary it produced
\* (text), and the arguments the caller passed (args).
NoArgs == [id |-> NoId, owner |-> NoOwner, tags |-> {}, description |-> NoText,
           hook |-> NoOwner, reinitialize |-> FALSE, init_args |-> <<>>]

Registered(self) ==
    LET v == objs[self]
    IN  IF v.owner # NoOwner /\ v.id \in DOMAIN _objects[v.owner]
        THEN _objects[v.owner][v.id] ELSE None

Held(self) == IF objs[self].tags = None THEN {} ELSE sets[objs[self].tags]

Call(op, self, tags, how, ret, new, before, held, text) ==
    [op |-> op, self |-> self, tags |-> tags, outcome |-> how,
     ret |-> ret, new |-> new, before |-> before, held |-> held, text |-> text,
     args |-> NoArgs]

\* The children a caller may hand to a constructor: nothing, a raw leaf,
\* or a value that is not yet the child of another (the chain is a tree).
Roots == {r \in Refs(Store) : \A q \in Refs(Store) : objs[q].child # r}

\* make(id?, owner?, tags?, description?, child?), with tags None or the
\* set object another value already holds (tagsArg), or a new set (lit).
Make(cls, id, owner, tagsArg, description, child) ==
    LET st == __init__(Store, cls, id, owner, tagsArg, description, child)
    IN  /\ Fits(st)
        /\ Commit(st)
        /\ last' = [Call("make", Len(st.objs), <<>>, "ok", Len(st.objs), Len(st.objs),
                         None, {}, <<>>)
                        EXCEPT !.args.id = id, !.args.owner = owner,
                               !.args.tags = IF tagsArg = None THEN {} ELSE sets[tagsArg],
                               !.args.description = description]

MakeLit(cls, id, owner, lit, description, child) ==
    LET s0 == [Store EXCEPT !.sets = Append(@, lit)]
        st == __init__(s0, cls, id, owner, Len(s0.sets), description, child)
    IN  /\ lit # {}
        /\ Fits(st)
        /\ Commit(st)
        /\ last' = [Call("make", Len(st.objs), <<>>, "ok", Len(st.objs), Len(st.objs),
                         None, {}, <<>>)
                        EXCEPT !.args.id = id, !.args.owner = owner, !.args.tags = lit,
                               !.args.description = description]

Describe(self, text) ==
    /\ Commit(describe(Store, self, text))
    /\ last' = Call("describe", self, <<>>, "ok", self, None, Registered(self), Held(self), <<>>)

Tag(self, tags) ==
    LET r == tag(Store, self, tags)
    IN  /\ Fits(r.st)
        /\ Commit(r.st)
        /\ last' = Call("tag", self, tags, IF r.raised THEN "NoOwner" ELSE "ok",
                        IF r.raised THEN None ELSE self, None, Registered(self), Held(self), <<>>)

\* A get() that raises leaves behind only unreachable instances; they are
\* dropped from the heap, the ids it drew stay drawn.
Get(self) ==
    LET g == get(Store, self)
    IN  /\ Fits(g.st)
        /\ IF g.ok THEN Commit(g.st) ELSE Commit([Store EXCEPT !.nextId = g.st.nextId])
        /\ last' = Call("get", self, <<>>, IF g.ok THEN "ok" ELSE "AttributeError",
                        g.ret, g.ret, Registered(self), Held(self), <<>>)

MidGet(self) ==
    LET g == mid_get(Store, self)
    IN  /\ Fits(g.st)
        /\ IF g.ok THEN Commit(g.st) ELSE Commit([Store EXCEPT !.nextId = g.st.nextId])
        /\ last' = Call("mid_get", self, <<>>, IF g.ok THEN "ok" ELSE "AttributeError",
                        None, g.new, Registered(self), Held(self), <<>>)

Str(self) ==
    /\ UNCHANGED <<objs, sets, nextId, local_worker, _objects, _tag_to_object_ids, native>>
    /\ UNCHANGED dispvars
    /\ last' = Call("str", self, <<>>, "ok", None, None, None, {}, __str__(Store, self))

Repr(self) ==
    /\ UNCHANGED <<objs, sets, nextId, local_worker, _objects, _tag_to_object_ids, native>>
    /\ UNCHANGED dispvars
    /\ last' = Call("repr", self, <<>>, "ok", None, None, None, {}, __repr__(Store, self))

InitializeObject(hook, obj, owner, reinitialize, id, init_args) ==
    LET st == initialize_object(Store, hook, obj, owner, reinitialize, id, init_args)
    IN  /\ Fits(st)
        /\ Commit(st)
        /\ last' = [Call("initialize_object", obj, <<>>, "ok", None, None,
                         Registered(obj), Held(obj), <<>>)
                        EXCEPT !.args.id = id, !.args.owner = owner, !.args.hook = hook,
                               !.args.reinitialize = reinitialize,
                               !.args.init_args = init_args]

\* The caller marks a value as a wrapper (obj.is_wrapper = True).
MarkWrapper(self) ==
    /\ ~objs[self].is_wrapper
    /\ Commit([Store EXCEPT !.objs[self].is_wrapper = TRUE])
    /\ last' = Call("mark_wrapper", self, <<>>, "ok", None, None,
                    Registered(self), Held(self), <<>>)

\* No dispatch is in progress.
NoOutcome == [kind |-> "none", response |-> <<>>, exc |-> ""]

DispIdle ==
    /\ attrs = [c \in {"A", "B"} |-> {}]
    /\ stack = <<>>
    /\ trace = <<>>
    /\ outcome = NoOutcome

HeapInit ==
    /\ objs = <<>>
    /\ sets = <<>>
    /\ nextId = FirstId
    /\ local_worker \in {NoOwner, "w1"}
    /\ _objects = [w \in Workers |-> <<>>]
    /\ _tag_to_object_ids = [w \in Workers |-> [t \in Tags |-> {}]]
    /\ native = <<>>
    /\ last = Call("init", None, <<>>, "ok", None, None, None, {}, <<>>)
    /\ DispIdle

\* No default registry has been set up.
TagInit ==
    /\ objs = <<>>
    /\ sets = <<>>
    /\ nextId = FirstId
    /\ local_worker = NoOwner
    /\ _objects = [w \in Workers |-> <<>>]
    /\ _tag_to_object_ids = [w \in Workers |-> [t \in Tags |-> {}]]
    /\ native = <<>>
    /\ last = Call("init", None, <<>>, "ok", None, None, None, {}, <<>>)
    /\ DispIdle

TagSeqs == UNION {[1..n -> Tags] : n \in 0..MaxTagArgs}

\* The lifecycle of values: construction, the initializer, get, mid_get.
\* The caller constructs at most MaxMade values; get and mid_get
\* construct the others.
GetArgs ==
    {<<"A", NoId, NoOwner, {}, NoText>>,
     <<"B", 5, "w2", {"private"}, "d">>,
     <<"A", 5, NoOwner, {"private", "x"}, "d">>}

NextGet ==
    \/ \E a \in GetArgs, child \in {None, PtrLeaf} \cup Roots :
            /\ Len(objs) < MaxMade
            /\ \/ a[4] = {} /\ Make(a[1], a[2], a[3], None, a[5], child)
               \/ MakeLit(a[1], a[2], a[3], a[4], a[5], child)
    \/ \E self \in Refs(Store) : Get(self)
    \/ \E self \in Refs(Store) : MidGet(self)
    \/ \E obj \in Refs(Store) :
            /\ Len(objs) <= MaxMade
            /\ InitializeObject("w1", obj, NoOwner, FALSE, 0, <<>>)

SpecGet == HeapInit /\ [][NextGet]_vars

\* Tagging: values with and without an owner (no default registry is set
\* up), with fresh and with explicit ids, with and without tags given at
\* construction, described or not, tagged with every short sequence of tags.
NextTag ==
    \/ \E id \in {NoId, 5}, owner \in {NoOwner, "w2"} :
            /\ Len(objs) < MaxTagged
            /\ \/ Make("A", id, owner, None, NoText, None)
               \/ MakeLit("A", id, owner, {"x"}, NoText, None)
    \/ \E self \in Refs(Store), text \in Texts : Describe(self, text)
    \/ \E self \in Refs(Store), tags \in TagSeqs : Tag(self, tags)

SpecTag == TagInit /\ [][NextTag]_vars

\* Textual summaries of chains of up to MaxChain layers.
NextStr ==
    \/ \E cls \in {"A", "B", "C"}, child \in {None} \cup Leaves \cup Roots :
            /\ Len(objs) < MaxChain
            /\ Make(cls, 5, NoOwner, None, NoText, child)
    \/ \E self \in Refs(Store) : Str(self)
    \/ \E self \in Refs(Store) : Repr(self)

SpecStr == HeapInit /\ [][NextStr]_vars

\* The whole life of a value: construction (with tags of its own, or with the
\* set object another value holds as the tags argument), optionally completed
\* by the initializer, then describe, tag, get and mid_get in any order.  A
\* get or mid_get is made while the heap holds at most MaxLife values.
LifeArgs ==
    {<<"A", NoId, NoOwner, NoText>>, <<"B", 5, "w2", "d">>}

LifeTags == {<<"x">>, <<"private", "x">>}

NextLife ==
    \/ \E a \in LifeArgs, tagsArg \in {None} \cup {objs[r].tags : r \in Refs(Store)} :
            /\ Len(objs) < MaxLife
            /\ Make(a[1], a[2], a[3], tagsArg, a[4], PtrLeaf)
    \/ \E a \in LifeArgs :
            /\ Len(objs) < MaxLife
            /\ MakeLit(a[1], a[2], a[3], {"x"}, a[4], PtrLeaf)
    \/ \E obj \in Refs(Store) :
            /\ last.op = "make"
            /\ last.self = obj
            /\ InitializeObject("w1", obj, NoOwner, FALSE, 0, <<>>)
    \/ \E self \in Refs(Store), text \in Texts : Describe(self, text)
    \/ \E self \in Refs(Store), tags \in LifeTags : Tag(self, tags)
    \/ \E self \in Refs(Store) : Len(objs) <= MaxLife /\ Get(self)
    \/ \E self \in Refs(Store) : Len(objs) <= MaxLife /\ MidGet(self)

\* The default registry is set up.
LifeInit ==
    /\ objs = <<>>
    /\ sets = <<>>
    /\ nextId = FirstId
    /\ local_worker = "w1"
    /\ _objects = [w \in Workers |-> <<>>]
    /\ _tag_to_object_ids = [w \in Workers |-> [t \in Tags |-> {}]]
    /\ native = <<>>
    /\ last = Call("init", None, <<>>, "ok", None, None, None, {}, <<>>)
    /\ DispIdle

SpecLife == LifeInit /\ [][NextLife]_vars

\* Construction and the lifecycle initializer, with every combination of an
\* absent or explicit id (0 included), owner, tags, and reinitialize.  The
\* initializer runs on the value constructed last, marked as a wrapper or not.
Ids == {NoId, 0, 5}
InitArgs == {<<>>, <<3>>}

NextInit ==
    \/ \E id \in Ids, owner \in {NoOwner, "w2"} :
            /\ Len(objs) < MaxInit
            /\ \/ Make("A", id, owner, None, NoText, None)
               \/ MakeLit("A", id, owner, {"x"}, NoText, None)
    \/ \E obj \in Refs(Store), owner \in {NoOwner, "w2"}, id \in Ids :
        \E reinitialize \in BOOLEAN, init_args \in InitArgs :
            /\ last.op \in {"make", "mark_wrapper"}
            /\ last.self = obj
            /\ InitializeObject("w1", obj, owner, reinitialize, id, init_args)
    \/ \E self \in Refs(Store) :
            /\ last.op = "make"
            /\ last.self = self
            /\ MarkWrapper(self)

SpecInit == HeapInit /\ [][NextInit]_vars
\* ---------------------------------------------------- command dispatcher
\* A value in a command or a response: types lists the classes of its chain,
\* outermost first (a wrapper of class A around a wrapper of class B around
\* a raw tensor is <<"A", "B", "T">>), data tells values of one type apart.
WrapperTypes == {"A", "B"}
LeafType == "T"
Val(types, data) == [types |-> types, data |-> data]
Scalar == Val(<<"int">>, 7)
TypeOf(v) == Head(v.types)
IsWrapped(v) == Len(v.types) > 1
child(v) == [v EXCEPT !.types = Tail(@)]

\* Operation names are dotted paths, kept as the sequence of their segments.
OpNames == {<<"add">>, <<"linalg", "solve">>}
KwNames == {"out"}

\* rgetattr(cls, attr): functools.reduce(_getattr, [cls] + attr.split("."));
\* a segment that is not an attribute of what was resolved so far raises
\* AttributeError.  done is the path resolved so far.
RECURSIVE reduce_getattr(_, _, _)
reduce_getattr(cls, done, rest) ==
    IF rest = <<>> THEN TRUE
    ELSE /\ Append(done, Head(rest)) \in attrs[cls]
         /\ reduce_getattr(cls, Append(done, Head(rest)), Tail(rest))

\* cmd is [name, resolved]: resolved tells that cmd was rebound to the
\* attribute rgetattr returned.  Such a cmd is no string: attr.split raises
\* AttributeError.
rgetattr(cls, cmd) == ~cmd.resolved /\ reduce_getattr(cls, <<>>, cmd.name)

\* hook_args.unwrap_args_from_function: every wrapped value is replaced by
\* its child; new_type is the type of the children.
FirstWrapped(args, kwargs) ==
    IF \E i \in DOMAIN args : IsWrapped(args[i])
    THEN args[CHOOSE i \in DOMAIN args :
                /\ IsWrapped(args[i])
                /\ \A j \in DOMAIN args : IsWrapped(args[j]) => i <= j]
    ELSE kwargs[CHOOSE k \in DOMAIN kwargs : IsWrapped(kwargs[k])]

unwrap_args_from_function(cmd, args, kwargs) ==
    [new_args |-> [i \in DOMAIN args |->
                        IF IsWrapped(args[i]) THEN child(args[i]) ELSE args[i]],
     new_kwargs |-> [k \in DOMAIN kwargs |->
                        IF IsWrapped(kwargs[k]) THEN child(kwargs[k]) ELSE kwargs[k]],
     new_type |-> TypeOf(child(FirstWrapped(args, kwargs)))]

\* hook_args.hook_response: every value of type new_type in the response is
\* wrapped into wrap_type.
hook_response(cmd, response, wrap_type, new_type) ==
    [i \in DOMAIN response |->
        IF TypeOf(response[i]) = new_type
        THEN [response[i] EXCEPT !.types = <<wrap_type>> \o @]
        ELSE response[i]]

\* One handle_func_command call in progress.
Frame(cls, cmd, args, kwargs) ==
    [cls |-> cls, cmd |-> cmd, args |-> args, kwargs |-> kwargs, pc |-> "probe",
     probe |-> "", new_args |-> <<>>, new_kwargs |-> <<>>, new_type |-> "",
     forwarded |-> <<>>, response |-> <<>>]

Ev(d, e, cmd, args, kwargs, response) ==
    [d |-> d, e |-> e, cmd |-> cmd, args |-> args, kwargs |-> kwargs,
     response |-> response]

Depth == Len(stack)
Top == stack[Depth]
SetTop(f) == [stack EXCEPT ![Depth] = f]
Log(e, cmd, args, kwargs, response) ==
    trace' = Append(trace, Ev(Depth, e, cmd, args, kwargs, response))

\* The caller dispatches command (name, None, args, kwargs) on class cls.
Dispatch(cls, name, args, kwargs) ==
    /\ stack = <<>>
    /\ outcome.kind = "none"
    /\ trace = <<>>
    /\ stack' = <<Frame(cls, [name |-> name, resolved |-> FALSE], args, kwargs)>>
    /\ trace' = <<Ev(1, "enter", [name |-> name, resolved |-> FALSE], args, kwargs, <<>>)>>
    /\ UNCHANGED <<attrs, outcome>>
    /\ UNCHANGED heapvars

\* cmd = cls.rgetattr(cls, cmd) succeeds: cmd is rebound to the attribute.
ProbeHit ==
    /\ stack # <<>>
    /\ Top.pc = "probe"
    /\ rgetattr(Top.cls, Top.cmd)
    /\ stack' = SetTop([Top EXCEPT !.pc = "invoke", !.probe = "hit", !.cmd.resolved = TRUE])
    /\ Log("resolved", Top.cmd, Top.args, Top.kwargs, <<>>)
    /\ UNCHANGED <<attrs, outcome>>
    /\ UNCHANGED heapvars

\* rgetattr raises AttributeError: `except AttributeError: pass`.
ProbeMiss ==
    /\ stack # <<>>
    /\ Top.pc = "probe"
    /\ ~rgetattr(Top.cls, Top.cmd)
    /\ stack' = SetTop([Top EXCEPT !.pc = "unwrap", !.probe = "miss"])
    /\ Log("miss", Top.cmd, Top.args, Top.kwargs, <<>>)
    /\ UNCHANGED <<attrs, outcome>>
    /\ UNCHANGED heapvars

\* return cmd(*args_, **kwargs_): the override returns r.
InvokeReturn(r) ==
    /\ stack # <<>>
    /\ Top.pc = "invoke"
    /\ stack' = SetTop([Top EXCEPT !.pc = "return", !.response = r])
    /\ Log("invoke", Top.cmd, Top.args, Top.kwargs, r)
    /\ UNCHANGED <<attrs, outcome>>
    /\ UNCHANGED heapvars

\* cmd(*args_, **kwargs_) raises.  The call is inside the try block: an
\* AttributeError is caught there (`except AttributeError: pass`) and the
\* method goes on with cmd rebound; any other exception leaves this call and
\* every enclosing one (the forward at line 171 is in no try block).
hfc_catches(exc) == exc = "AttributeError"

InvokeRaise(exc) ==
    /\ stack # <<>>
    /\ Top.pc = "invoke"
    /\ IF hfc_catches(exc)
       THEN /\ stack' = SetTop([Top EXCEPT !.pc = "unwrap", !.probe = "caught"])
            /\ UNCHANGED outcome
       ELSE /\ stack' = <<>>
            /\ outcome' = [kind |-> "raised", response |-> <<>>, exc |-> exc]
    /\ Log("raise", Top.cmd, Top.args, Top.kwargs, <<Val(<<exc>>, 0)>>)
    /\ UNCHANGED attrs
    /\ UNCHANGED heapvars

\* new_args, new_kwargs, new_type = hook_args.unwrap_args_from_function(...)
Unwrap ==
    /\ stack # <<>>
    /\ Top.pc = "unwrap"
    /\ LET u == unwrap_args_from_function(Top.cmd, Top.args, Top.kwargs)
       IN  /\ stack' = SetTop([Top EXCEPT !.pc = "hook", !.new_args = u.new_args,
                                          !.new_kwargs = u.new_kwargs,
                                          !.new_type = u.new_type])
           /\ Log("unwrap", Top.cmd, u.new_args, u.new_kwargs, <<>>)
    /\ UNCHANGED <<attrs, outcome>>
    /\ UNCHANGED heapvars

\* on_function_call: the default does nothing and returns None; class A
\* overrides it and returns a value.
on_function_call(cls) == IF cls = "A" THEN <<Scalar>> ELSE <<>>

\* Variant: the hook is handed the command as it was received.
Hook_received_command ==
    /\ stack # <<>>
    /\ Top.pc = "hook"
    /\ stack' = SetTop([Top EXCEPT !.pc = "forward"])
    /\ Log("hook", Top.cmd, Top.args, Top.kwargs, on_function_call(Top.cls))
    /\ UNCHANGED <<attrs, outcome>>
    /\ UNCHANGED heapvars

\* new_command = (cmd, None, new_args, new_kwargs); cls.on_function_call(new_command):
\* what the hook returns is bound to nothing.
Hook ==
    /\ stack # <<>>
    /\ Top.pc = "hook"
    /\ stack' = SetTop([Top EXCEPT !.pc = "forward"])
    /\ Log("hook", Top.cmd, Top.new_args, Top.new_kwargs, on_function_call(Top.cls))
    /\ UNCHANGED <<attrs, outcome>>
    /\ UNCHANGED heapvars

\* response = new_type.handle_func_command(new_command), new_type a wrapper class.
Forward ==
    /\ stack # <<>>
    /\ Top.pc = "forward"
    /\ Top.new_type \in WrapperTypes
    /\ stack' = Append(SetTop([Top EXCEPT !.pc = "await"]),
                       Frame(Top.new_type, Top.cmd, Top.new_args, Top.new_kwargs))
    /\ Log("forward", Top.cmd, Top.new_args, Top.new_kwargs, <<>>)
    /\ UNCHANGED <<attrs, outcome>>
    /\ UNCHANGED heapvars

\* response = new_type.handle_func_command(new_command), new_type the raw
\* leaf type: the native operation runs and answers r.
ForwardLeaf(r) ==
    /\ stack # <<>>
    /\ Top.pc = "forward"
    /\ Top.new_type \notin WrapperTypes
    /\ stack' = SetTop([Top EXCEPT !.pc = "rewrap", !.forwarded = r])
    /\ Log("leaf", Top.cmd, Top.new_args, Top.new_kwargs, r)
    /\ UNCHANGED <<attrs, outcome>>
    /\ UNCHANGED heapvars

\* Variant: the forwarded response is returned as it came.
hfc_rewrap_forgotten(f) == f.forwarded

\* response = hook_args.hook_response(cmd, response, wrap_type=cls)
hfc_rewrap(f) == hook_response(f.cmd, f.forwarded, f.cls, f.new_type)

Rewrap ==
    /\ stack # <<>>
    /\ Top.pc = "rewrap"
    /\ stack' = SetTop([Top EXCEPT !.pc = "return", !.response = hfc_rewrap(Top)])
    /\ Log("rewrap", Top.cmd, Top.new_args, Top.new_kwargs, hfc_rewrap(Top))
    /\ UNCHANGED <<attrs, outcome>>
    /\ UNCHANGED heapvars

\* return: the response goes to the enclosing call, or to the caller.
Return ==
    /\ stack # <<>>
    /\ Top.pc = "return"
    /\ IF Depth > 1
       THEN /\ stack' = [SubSeq(stack, 1, Depth - 1) EXCEPT
                            ![Depth - 1].pc = "rewrap",
                            ![Depth - 1].forwarded = Top.response]
            /\ UNCHANGED outcome
       ELSE /\ stack' = <<>>
            /\ outcome' = [kind |-> "returned", response |-> Top.response, exc |-> ""]
    /\ Log("return", Top.cmd, Top.args, Top.kwargs, Top.response)
    /\ UNCHANGED attrs
    /\ UNCHANGED heapvars

\* The attribute tables a wrapper class may have.
AttrTables ==
    {{}, {<<"add">>}, {<<"linalg">>}, {<<"linalg">>, <<"linalg", "solve">>}}

DispInit ==
    /\ objs = <<>>
    /\ sets = <<>>
    /\ nextId = FirstId
    /\ local_worker = NoOwner
    /\ _objects = [w \in Workers |-> <<>>]
    /\ _tag_to_object_ids = [w \in Workers |-> [t \in Tags |-> {}]]
    /\ native = <<>>
    /\ last = Call("init", None, <<>>, "ok", None, None, None, {}, <<>>)
    /\ attrs \in [WrapperTypes -> AttrTables]
    /\ stack = <<>>
    /\ trace = <<>>
    /\ outcome = NoOutcome

\* The chains of wrapper classes over a raw tensor, up to MaxDepth wrappers;
\* every wrapped argument of one command has the same chain.
Chains == UNION {[1..n -> WrapperTypes] : n \in 1..MaxDepth}
Wrapped(chain, data) == Val(chain \o <<LeafType>>, data)
ArgLists(chain) ==
    {<<Wrapped(chain, 1)>>, <<Wrapped(chain, 1), Wrapped(chain, 2)>>,
     <<Wrapped(chain, 1), Scalar>>, <<Scalar, Wrapped(chain, 1)>>}
KwArgs(chain) == {<<>>, [k \in KwNames |-> Wrapped(chain, 2)]}
LeafResponses ==
    {<<Val(<<LeafType>>, 1)>>, <<Val(<<LeafType>>, 1), Scalar>>, <<Scalar>>,
     <<Val(<<LeafType>>, 1), Val(<<LeafType>>, 2)>>}
Exceptions == {"AttributeError", "TypeError"}
\* What an override may return: a scalar, or its first argument.
OverrideResults == IF stack = <<>> THEN {} ELSE {<<Scalar>>, <<Top.args[1]>>}

NextDispatch ==
    \/ \E chain \in Chains, name \in OpNames :
        \E args \in ArgLists(chain), kwargs \in KwArgs(chain) :
            Dispatch(Head(chain), name, args, kwargs)
    \/ ProbeHit
    \/ ProbeMiss
    \/ \E r \in OverrideResults : InvokeReturn(r)
    \/ \E exc \in Exceptions : InvokeRaise(exc)
    \/ Unwrap
    \/ Hook
    \/ Forward
    \/ \E r \in LeafResponses : ForwardLeaf(r)
    \/ Rewrap
    \/ Return

SpecDispatch == DispInit /\ [][NextDispatch]_vars

\* Every step of the dispatcher is synchronous call/return code: a dispatch
\* in progress takes its next step.
SpecDispatchFair == DispInit /\ [][NextDispatch]_vars /\ WF_vars(NextDispatch)

\* ---------------------------------------------------------------- claims
Range(f) == {f[i] : i \in DOMAIN f}

\* The events of the handle_func_command call at depth d.
EventsAt(d) == {i \in DOMAIN trace : trace[i].d = d}

\* C1: override short-circuit.  In every dispatch whose operation name
\* resolved on the dispatching class, the resolved attribute is invoked once
\* with the command's args and kwargs, what the dispatch returns is what the
\* attribute returned, and the dispatch does no unwrap, no hook call and no
\* forward.
C1_OverrideShortCircuit ==
    \A i \in DOMAIN trace : trace[i].e = "resolved" =>
        LET d == trace[i].d
            calls == {j \in EventsAt(d) : trace[j].e \in {"invoke", "raise"}}
        IN  /\ Cardinality(calls) <= 1
            /\ \A j \in calls :
                trace[j].args = trace[i].args /\ trace[j].kwargs = trace[i].kwargs
            /\ \A j \in EventsAt(d) :
                /\ trace[j].e \notin {"unwrap", "hook", "forward", "leaf", "rewrap"}
                /\ trace[j].e = "return" =>
                    \E k \in calls : /\ k < j
                                     /\ trace[k].e = "invoke"
                                     /\ trace[k].response = trace[j].response

\* C2: only the attribute-not-found of the path resolution is caught.  Once
\* the path has resolved, an exception the override raises, AttributeError
\* included, ends the dispatch: it reaches the caller unchanged and nothing
\* (no unwrap, no hook, no forward) follows it.
C2_OverrideExceptionPropagates ==
    \A i \in DOMAIN trace : trace[i].e = "raise" =>
        /\ i = Len(trace)
        /\ stack = <<>>
        /\ outcome.kind = "raised"
        /\ outcome.exc = TypeOf(trace[i].response[1])

\* The rewrap of a response forwarded by type T's dispatcher into class cls.
Symmetric(cls, T, forwarded, response) ==
    /\ DOMAIN response = DOMAIN forwarded
    /\ \A i \in DOMAIN forwarded :
        IF TypeOf(forwarded[i]) = T
        THEN /\ TypeOf(response[i]) = cls
             /\ IsWrapped(response[i])
             /\ child(response[i]) = forwarded[i]
        ELSE response[i] = forwarded[i]

OneChildType(f) ==
    /\ \A i \in DOMAIN f.args :
        IsWrapped(f.args[i]) => TypeOf(child(f.args[i])) = f.new_type
    /\ \A k \in DOMAIN f.kwargs :
        IsWrapped(f.kwargs[k]) => TypeOf(child(f.kwargs[k])) = f.new_type

\* C3: unwrap/rewrap symmetry.  When a dispatch with no override, whose
\* wrapped arguments all have children of one type T, is about to return, its
\* response has the structure of the response T's dispatcher gave: each value
\* of type T in it is wrapped into a value of the dispatching class whose
\* child is that value, and every other value is unchanged; and what the
\* caller receives is the response of the outermost dispatch.
C3_UnwrapRewrapSymmetry ==
    /\ \A k \in DOMAIN stack :
        (stack[k].pc = "return" /\ stack[k].probe = "miss" /\ OneChildType(stack[k])) =>
            Symmetric(stack[k].cls, stack[k].new_type, stack[k].forwarded,
                      stack[k].response)
    /\ (outcome.kind = "returned" /\ trace[2].e = "miss") =>
            \E j \in EventsAt(1) :
                /\ trace[j].e = "rewrap"
                /\ trace[j].response = outcome.response

\* The outer dispatch of a two-layer chain is about to return a response in
\* which a value came wrapped from the inner layer and another did not.
C3_Witness ==
    /\ Len(stack) = 1
    /\ stack[1].pc = "return"
    /\ stack[1].probe = "miss"
    /\ stack[1].new_type \in WrapperTypes
    /\ \E i, j \in DOMAIN stack[1].forwarded :
        /\ TypeOf(stack[1].forwarded[i]) = stack[1].new_type
        /\ TypeOf(stack[1].forwarded[j]) # stack[1].new_type

\* What the claim says v.get() returns: a new value of v's class with v's id,
\* tags, description and owner, whose child is what the child's get() returns.
RECURSIVE IsGetOf(_, _)
IsGetOf(n, v) ==
    /\ n # v
    /\ objs[n].cls = objs[v].cls
    /\ objs[n].id = objs[v].id
    /\ sets[objs[n].tags] = sets[objs[v].tags]
    /\ objs[n].description = objs[v].description
    /\ objs[n].owner = objs[v].owner
    /\ IF objs[v].child \in Leaves
       THEN objs[n].child = LeafGet(objs[v].child)
       ELSE /\ objs[n].child \in Refs(Store)
            /\ IsGetOf(objs[n].child, objs[v].child)

\* C4: get round-trip.  Whenever v.get() returned, the value it returned is a
\* new value of the same class with v's id, tags, description and owner, and
\* its child is the result of the child's get().
C4_GetRoundTrip ==
    (last.op = "get" /\ last.outcome = "ok") => IsGetOf(last.ret, last.self)

\* C5: mid_get re-registration.  Whenever v.mid_get() completed, the owner's
\* registry maps v's id to the value get() retrieved (a new instance of v's
\* class, not what was registered there before), that value's id is v's id,
\* and mid_get returned None.
C5_MidGetReregisters ==
    (last.op = "mid_get" /\ last.outcome = "ok") =>
        LET v == objs[last.self]
        IN  /\ v.id \in DOMAIN _objects[v.owner]
            /\ _objects[v.owner][v.id] = last.new
            /\ last.new \notin {last.self, last.before}
            /\ objs[last.new].cls = v.cls
            /\ objs[last.new].id = v.id
            /\ last.ret = None

\* A mid_get completed on a value whose id is 0 (the constructor inside get()
\* drew another id for the retrieved value) and whose id was registered to
\* another value before.
C5_Witness ==
    /\ last.op = "mid_get"
    /\ last.outcome = "ok"
    /\ objs[last.self].id = 0
    /\ last.before # None

\* C6: self-healing registration.  Whenever tag(t1..tn), n >= 1, was called on
\* a value that has an owner and whose id was absent from the owner's
\* registry, the registry now maps that id to the value, the id is in the tag
\* index under each of t1..tn, and each of t1..tn is in the value's tag set.
C6_SelfHealingRegistration ==
    LET v == objs[last.self]
    IN  (last.op = "tag" /\ Len(last.tags) >= 1 /\ v.owner # NoOwner
            /\ last.before = None) =>
            /\ last.outcome = "ok"
            /\ v.id \in DOMAIN _objects[v.owner]
            /\ _objects[v.owner][v.id] = last.self
            /\ \A t \in Range(last.tags) :
                /\ v.id \in _tag_to_object_ids[v.owner][t]
                /\ t \in sets[v.tags]

\* tag("private", "x") was called on an unregistered value with an owner.
C6_Witness ==
    /\ last.op = "tag"
    /\ last.tags = <<"private", "x">>
    /\ objs[last.self].owner # NoOwner
    /\ last.before = None
    /\ last.outcome = "ok"

\* C7: tag idempotence.  For a value with an owner: a tag(t) with t already in
\* its tag set leaves the size of the tag set unchanged; after tag(t) the tag
\* index entry of t holds the value's id; and a tag call that repeats the call
\* made just before it, on the same value with the same tags, changes neither
\* the values, nor the tag sets, nor the registry, nor the tag index.
C7_TagIdempotent ==
    [][(last'.op = "tag" /\ last'.outcome = "ok" /\ objs[last'.self].owner # NoOwner) =>
            LET self == last'.self
                v == objs[self]
            IN  /\ \A t \in Range(last'.tags) :
                    /\ v.id \in _tag_to_object_ids'[v.owner][t]
                    /\ Cardinality({i \in _tag_to_object_ids'[v.owner][t] : i = v.id}) = 1
                /\ Range(last'.tags) \subseteq sets[v.tags] =>
                    Cardinality(sets'[objs'[self].tags]) = Cardinality(sets[v.tags])
                /\ (last.op = "tag" /\ last.outcome = "ok" /\ last.self = self
                        /\ last.tags = last'.tags) =>
                    /\ objs' = objs
                    /\ sets' = sets
                    /\ _objects' = _objects
                    /\ _tag_to_object_ids' = _tag_to_object_ids]_vars

\* tag("x") was called on a value with an owner that already carried "x" and
\* was registered.
C7_Witness ==
    /\ last.op = "tag"
    /\ last.tags = <<"x">>
    /\ last.outcome = "ok"
    /\ last.before = last.self
    /\ "x" \in last.held

\* C8: no-owner failure.  Whenever tag was called, with any number of tags, on
\* a value whose owner is absent, the call ended in the no-owner failure and
\* did not return the value.
C8_NoOwnerAlwaysFails ==
    (last.op = "tag" /\ objs[last.self].owner = NoOwner) =>
        (last.outcome = "NoOwner" /\ last.ret = None)

\* C9: no partial mutation on failure.  A tag call that ends in the no-owner
\* failure leaves the values (tag set reference, id, description), the tag
\* sets, the registry and the tag index as they were.
C9_NoPartialMutation ==
    [][(last'.op = "tag" /\ last'.outcome = "NoOwner") =>
            /\ objs' = objs
            /\ sets' = sets
            /\ _objects' = _objects
            /\ _tag_to_object_ids' = _tag_to_object_ids]_vars

\* The layers of the chain under self, outermost first: the wrapper values,
\* and the raw leaf when the innermost wrapper has one as its child.
RECURSIVE LayerNames(_)
LayerNames(self) ==
    <<objs[self].cls>> \o
        (IF objs[self].child = None THEN <<>>
         ELSE IF objs[self].child \in Leaves THEN LeafStr(objs[self].child)
         ELSE LayerNames(objs[self].child))

\* The names joined by ">", nothing after the last one.
RECURSIVE Joined(_)
Joined(names) ==
    IF Len(names) = 1 THEN names
    ELSE <<Head(names), ">">> \o Joined(Tail(names))

\* C10: textual summary.  The summary (__str__ and __repr__) of a chain is its
\* layers' type names, outermost first, joined by ">", with nothing after the
\* last name; also when the innermost layer is a wrapper value constructed
\* without a child.
C10_SummaryIsJoinedNames ==
    (last.op \in {"str", "repr"}) => last.text = Joined(LayerNames(last.self))

\* C11: id stability.  A describe, tag, get or mid_get call changes the id of
\* no value that existed when it was made; and when mid_get completed, the id
\* of the value it retrieved is the id of the value it was called on, whatever
\* id the constructor inside get() gave it.
C11_IdStability ==
    [][(last'.op \in {"describe", "tag", "get", "mid_get"}) =>
            /\ \A r \in Refs(Store) : objs'[r].id = objs[r].id
            /\ (last'.op = "mid_get" /\ last'.outcome = "ok") =>
                    objs'[last'.new].id = objs[last'.self].id]_vars

\* A mid_get completed on a described and tagged value whose id is 0, for
\* which the constructor inside get() draws another id.
C11_Witness ==
    /\ last.op = "mid_get"
    /\ last.outcome = "ok"
    /\ objs[last.self].id = 0
    /\ objs[last.self].description = "d"
    /\ "x" \in last.held

\* C12: construction defaults.  A value constructed with an explicit id
\* (0 included) has that id and nothing was drawn from the IDProvider; one
\* constructed with no id has the id of exactly one pop(); an explicit owner is
\* kept, an absent one becomes sy.local_worker; explicit tags are kept, absent
\* tags become an empty set.
C12_ConstructionDefaults ==
    [][(last'.op = "make") =>
            LET v == objs'[last'.self]
                a == last'.args
            IN  /\ IF a.id # NoId
                   THEN v.id = a.id /\ nextId' = nextId
                   ELSE v.id = nextId /\ nextId' = nextId + 1
                /\ v.owner = (IF a.owner # NoOwner THEN a.owner ELSE local_worker)
                /\ sets'[v.tags] = a.tags]_vars

\* C13: lifecycle initializer.  After initialize_object(hook, obj, owner, r,
\* id, init_args): obj.id is the id supplied (0 included), else a fresh pop();
\* obj.owner is the owner supplied, else hook.local_worker; obj is not a
\* wrapper; the native construction routine ran once with init_args when r
\* and not at all otherwise, and it ran before id and owner were assigned (it
\* saw the id and owner obj had before the call).
C13_LifecycleInitializer ==
    [][(last'.op = "initialize_object") =>
            LET obj == last'.self
                a == last'.args
            IN  /\ IF a.id # NoId
                   THEN objs'[obj].id = a.id /\ nextId' = nextId
                   ELSE objs'[obj].id = nextId /\ nextId' = nextId + 1
                /\ objs'[obj].owner = (IF a.owner # NoOwner THEN a.owner ELSE a.hook)
                /\ ~objs'[obj].is_wrapper
                /\ IF a.reinitialize
                   THEN native' = Append(native, [obj |-> obj, args |-> a.init_args,
                                                  id |-> objs[obj].id,
                                                  owner |-> objs[obj].owner])
                   ELSE native' = native]_vars

\* initialize_object(reinitialize=True, id=0, init_args=(3,)) completed on a
\* value that had another id.
C13_Witness ==
    /\ last.op = "initialize_object"
    /\ last.args.reinitialize
    /\ last.args.id = 0
    /\ last.args.init_args = <<3>>
    /\ objs[last.self].id = 0
    /\ native # <<>>
    /\ native[Len(native)].id # 0

\* The events of kind e of the handle_func_command call at depth d.
EventsOf(d, e) == {j \in EventsAt(d) : trace[j].e \in e}

\* The response the dispatcher of the next layer gave the call at depth d.
ForwardedTo(d) ==
    {trace[j].response : j \in EventsOf(d, {"leaf"}) \cup EventsOf(d + 1, {"return"})}

\* The number of wrapper layers of the chain the caller dispatched on.
ChainDepth == Len(FirstWrapped(trace[1].args, trace[1].kwargs).types) - 1

\* C14: generic dispatch ordering.  In every dispatch whose override probe
\* missed: unwrap, hook, forward and rewrap happen at most once each and in
\* that order; the hook is handed the command that is forwarded (the
\* unwrapped arguments); the response is the rewrap of what the next layer's
\* dispatcher answered, whatever the hook returned; and once the dispatch
\* returned, each step happened exactly once.  Hooks fire outermost first and
\* rewraps innermost first, and when a dispatch with no override on the chain
\* has returned to the caller, each of the n layers' hooks fired exactly once.
C14_DispatchOrdering ==
    /\ \A i \in DOMAIN trace : trace[i].e = "miss" =>
        LET d == trace[i].d
            unwraps == EventsOf(d, {"unwrap"})
            hooks == EventsOf(d, {"hook"})
            forwards == EventsOf(d, {"forward", "leaf"})
            rewraps == EventsOf(d, {"rewrap"})
            returns == EventsOf(d, {"return"})
        IN  /\ Cardinality(unwraps) <= 1
            /\ Cardinality(hooks) <= 1
            /\ Cardinality(forwards) <= 1
            /\ Cardinality(rewraps) <= 1
            /\ \A j \in unwraps : i < j
            /\ \A j \in hooks : \E k \in unwraps : k < j
            /\ \A j \in forwards : \E k \in hooks : k < j
            /\ \A j \in rewraps : \E k \in forwards : k < j
            /\ \A j \in returns : \E k \in rewraps : k < j
            /\ \A j \in hooks :
                /\ \A k \in unwraps : /\ trace[j].args = trace[k].args
                                      /\ trace[j].kwargs = trace[k].kwargs
                /\ \A k \in forwards : /\ trace[j].cmd = trace[k].cmd
                                       /\ trace[j].args = trace[k].args
                                       /\ trace[j].kwargs = trace[k].kwargs
            /\ \A j \in rewraps : \E r \in ForwardedTo(d) :
                LET w == FirstWrapped(trace[i].args, trace[i].kwargs)
                IN  trace[j].response =
                        hook_response(trace[j].cmd, r, TypeOf(w), TypeOf(child(w)))
    /\ \A j, k \in DOMAIN trace :
        /\ (trace[j].e = "hook" /\ trace[k].e = "hook" /\ trace[j].d < trace[k].d) => j < k
        /\ (trace[j].e = "rewrap" /\ trace[k].e = "rewrap" /\ trace[j].d > trace[k].d) => j < k
    /\ (outcome.kind = "returned" /\ \A i \in DOMAIN trace : trace[i].e # "resolved") =>
        \A d \in 1..ChainDepth : Cardinality(EventsOf(d, {"hook"})) = 1

\* A dispatch on a two-layer chain with no override has returned to the
\* caller, and the two hooks returned different things.
C14_Witness ==
    /\ outcome.kind = "returned"
    /\ ChainDepth = 2
    /\ \A i \in DOMAIN trace : trace[i].e # "resolved"
    /\ \E j \in EventsOf(1, {"hook"}), k \in EventsOf(2, {"hook"}) :
        trace[j].response # trace[k].response

\* C15: forwarded command shape.  Every command handed to the hook and
\* forwarded to the next layer's dispatcher, at every depth and on every path
\* that reaches the forward, is (operation_name, None, new_args, new_kwargs):
\* operation_name is the dotted-path string the caller passed to the outermost
\* dispatch, new_args and new_kwargs are the arguments the dispatch received
\* with each wrapped value replaced by its child.
C15_ForwardedCommandShape ==
    \A j \in DOMAIN trace : trace[j].e \in {"hook", "forward", "leaf"} =>
        /\ trace[j].cmd = trace[1].cmd
        /\ ~trace[j].cmd.resolved
        /\ \E k \in EventsOf(trace[j].d, {"miss", "resolved"}) :
            LET u == unwrap_args_from_function(trace[k].cmd, trace[k].args,
                                               trace[k].kwargs)
            IN  /\ k < j
                /\ trace[j].args = u.new_args
                /\ trace[j].kwargs = u.new_kwargs

\* The layers whose dispatcher was entered so far.
Entered == {trace[i].d : i \in DOMAIN trace}

\* The recursion descends one layer per forward, enters at most n wrapper
\* dispatchers (each once) and the leaf dispatcher at most once, and goes no
\* deeper than the first layer where an override fired.
DescentBounded ==
    trace # <<>> =>
        /\ \A d \in Entered : d <= ChainDepth
        /\ \A d \in Entered : Cardinality(EventsOf(d, {"miss", "resolved"})) <= 1
        /\ \A d \in Entered : d > 1 => EventsOf(d - 1, {"forward"}) # {}
        /\ Cardinality({i \in DOMAIN trace : trace[i].e = "leaf"}) <= 1
        /\ \A i \in DOMAIN trace : trace[i].e = "resolved" =>
            /\ \A d \in Entered : d <= trace[i].d
            /\ \A j \in DOMAIN trace : trace[j].e # "leaf"

\* C16: dispatch termination.  A dispatch on a chain of n wrapper layers
\* eventually ends; the recursion descends one layer per forward and stops at
\* the first layer where an override fires or at the leaf, so at most n
\* wrapper dispatchers are entered and the leaf dispatcher at most once.
C16_DispatchTermination ==
    /\ []DescentBounded
    /\ (stack # <<>>) ~> (stack = <<>> /\ outcome.kind # "none")

\* C17: mutation discipline.  In every step, the tag set and the description
\* of a value that existed before the step change only if the step is a tag
\* or describe call on that value itself (so tagging the value v.get()
\* returned, or a value constructed from the same tags argument, leaves v's
\* tag set as it was); the registry map changes only in steps that call
\* register_obj (tag, mid_get) and the tag index only in tag.
C17_MutationDiscipline ==
    [][/\ \A v \in Refs(Store) :
            (\/ sets'[objs'[v].tags] # sets[objs[v].tags]
             \/ objs'[v].description # objs[v].description) =>
                (last'.op \in {"tag", "describe"} /\ last'.self = v)
       /\ (_objects' # _objects) => last'.op \in {"tag", "mid_get"}
       /\ (_tag_to_object_ids' # _tag_to_object_ids) => last'.op = "tag"]_vars

\* C18: tag ensures registration of the tagged value.  After a successful
\* tag(t1..tn), n >= 1, on a value with an owner, the owner's registry maps
\* the value's id to that value itself, also when the id was registered to
\* another value with the same id before the call.
C18_TagRegistersSelf ==
    (last.op = "tag" /\ last.outcome = "ok" /\ Len(last.tags) >= 1
        /\ objs[last.self].owner # NoOwner) =>
        LET v == objs[last.self]
        IN  /\ v.id \in DOMAIN _objects[v.owner]
            /\ _objects[v.owner][v.id] = last.self

\* C19: get is read-only on the wrapper layer.  A v.get() step leaves v's id,
\* owner, tags (the set and what it holds), description and child as they
\* were, changes neither the registry map nor the tag index, and the value it
\* returned is registered nowhere; a completed v.mid_get() step is what puts
\* the retrieved value into the registry of v's owner.
C19_GetReadOnly ==
    [][/\ (last'.op = "get") =>
            LET v == last'.self
            IN  /\ objs'[v] = objs[v]
                /\ sets'[objs'[v].tags] = sets[objs[v].tags]
                /\ _objects' = _objects
                /\ _tag_to_object_ids' = _tag_to_object_ids
                /\ last'.outcome = "ok" =>
                    /\ last'.ret \notin Refs(Store)
                    /\ \A w \in Workers : last'.ret \notin Range(_objects'[w])
       /\ (last'.op = "mid_get" /\ last'.outcome = "ok") =>
            /\ last'.new \notin Refs(Store)
            /\ last'.new \in Range(_objects'[objs[last'.self].owner])]_vars

\* get() returned on a tagged value that its owner's registry holds.
C19_Witness ==
    /\ last.op = "get"
    /\ last.outcome = "ok"
    /\ last.before = last.self
    /\ "x" \in last.held
    /\ _tag_to_object_ids[objs[last.self].owner]["x"] # {}
====
